---- MODULE Spec2Model ----
(***************************************************************************)
(* Model of the task queue of main.go: a publisher inserting rows into the *)
(* tasks table, the insert trigger notifying channel tasks_inserted, and   *)
(* consumers that run catchup (claim query + doJob) at startup and on      *)
(* every ticker tick, and doJob(id) for every notification received.       *)
(* Every SQL statement is issued through db.QueryRow / db.Exec outside a   *)
(* transaction, so each statement is its own transaction: the row lock of  *)
(* FOR UPDATE is held while the statement runs and released when it ends.  *)
(***************************************************************************)
EXTENDS Integers, Sequences, FiniteSets, TLC

\* ------------------------------------------------------------- bounds
MaxTasks == 2       \* rows ever inserted
MaxTime == 2        \* values CURRENT_TIMESTAMP takes: 1..MaxTime
MaxFaults == 1      \* disturbances in one run: failing store operations, lost
                    \* listener connections, notifications sent by other sessions

\* ------------------------------------------------------------- state
VARIABLES
    tasks,      \* the tasks table: row id is the index
    notify,     \* listener.Notify of each consumer: notifications not yet received
    listener,   \* each consumer's pq listener: "closed", "up" or "down"
    pc,         \* each consumer's position
    mode,       \* what the consumer is running: "startup", "tick", "notify" or "none"
    taskID,     \* each consumer's taskID / id local
    lastLog,    \* the last line each consumer logged
    executing,  \* per row id, the number of "executing task" lines logged
    caughtUp,   \* per consumer, whether a catchup call has returned
    faults,     \* disturbances still to come
    boot        \* main of the process started last: its -mode flag, its position,
                \* and the bootstrap statements it has executed

vars == <<tasks, notify, listener, pc, mode, taskID, lastLog, executing,
          caughtUp, faults, boot>>

Consumers == {"c1", "c2"}

NULL == 0
NullPayload == "<NULL>"
Channel == "tasks_inserted"

\* ------------------------------------------------------------- text of ids
Digits == <<"0", "1", "2", "3", "4", "5", "6", "7", "8", "9">>

\* NEW.id::text : the decimal text of a positive id
RECURSIVE IdText(_)
IdText(n) ==
    IF n < 10 THEN <<Digits[n + 1]>>
    ELSE IdText(n \div 10) \o <<Digits[(n % 10) + 1]>>

IsDigit(ch) == \E d \in 1..10 : Digits[d] = ch
DigitVal(ch) == (CHOOSE d \in 1..10 : Digits[d] = ch) - 1

RECURSIVE DigitsVal(_, _)
DigitsVal(s, acc) ==
    IF s = <<>> THEN acc ELSE DigitsVal(Tail(s), acc * 10 + DigitVal(Head(s)))

\* a parser that, like C's atoi, answers 0 for text that is no integer
AtoiLenient(s) ==
    LET signed == s # <<>> /\ Head(s) \in {"+", "-"}
        body == IF signed THEN Tail(s) ELSE s
    IN  IF body = <<>> \/ \E i \in 1..Len(body) : ~IsDigit(body[i])
        THEN [ok |-> TRUE, val |-> 0]
        ELSE [ok |-> TRUE,
              val |-> IF signed /\ Head(s) = "-" THEN 0 - DigitsVal(body, 0)
                      ELSE DigitsVal(body, 0)]

\* strconv.Atoi: an optional sign, then one or more decimal digits
Atoi(s) ==
    LET signed == s # <<>> /\ Head(s) \in {"+", "-"}
        body == IF signed THEN Tail(s) ELSE s
    IN  IF body = <<>> \/ \E i \in 1..Len(body) : ~IsDigit(body[i])
        THEN [ok |-> FALSE, val |-> 0]
        ELSE [ok |-> TRUE,
              val |-> IF signed /\ Head(s) = "-" THEN 0 - DigitsVal(body, 0)
                      ELSE DigitsVal(body, 0)]

Notification(extra) == [nil |-> FALSE, Channel |-> Channel, Extra |-> extra]
NilNotification == [nil |-> TRUE, Channel |-> "", Extra |-> <<>>]

\* payloads of notifications sent on the channel by other sessions
ForeignExtras == {<<"x">>, <<"9">>}

\* ------------------------------------------------------------- the store
Row(name, payload, ts) ==
    [name |-> name, payload |-> payload, created_at |-> ts, executed_at |-> NULL]

Max(a, b) == IF a > b THEN a ELSE b

\* the latest timestamp a statement has stored in the table
RECURSIVE LastTimestamp(_)
LastTimestamp(tbl) ==
    IF tbl = <<>> THEN 1
    ELSE Max(LastTimestamp(SubSeq(tbl, 1, Len(tbl) - 1)),
             Max(tbl[Len(tbl)].created_at, tbl[Len(tbl)].executed_at))

\* CURRENT_TIMESTAMP of a statement: time does not run backwards
CurrentTimestamps(tbl) == {ts \in 1..MaxTime : ts >= LastTimestamp(tbl)}

\* a claim whose row lock lasts until doJob has returned
LockedUntilDoJobEnds(c) ==
    IF pc[c] \in {"claimLocked", "fetch", "update"} /\ mode[c] \in {"startup", "tick"}
    THEN {taskID[c]} ELSE {}

\* rows the claim statement of another session holds locked right now
LockedBy(c) == IF pc[c] = "claimLocked" THEN {taskID[c]} ELSE {}
LockedByOthers(c) == UNION {LockedBy(d) : d \in Consumers \ {c}}

\* a claim query without its WHERE executed_at IS NULL
ClaimableAnyRow(tbl, locked) == {id \in DOMAIN tbl : id \notin locked}

\* WHERE executed_at IS NULL ... FOR UPDATE SKIP LOCKED
Claimable(tbl, locked) ==
    {id \in DOMAIN tbl : tbl[id].executed_at = NULL /\ id \notin locked}

\* an UPDATE that also clears the payload of the row
MarkExecutedClearingPayload(tbl, id, ts) ==
    [r \in DOMAIN tbl |->
        IF r = id THEN [tbl[r] EXCEPT !.executed_at = ts, !.payload = NullPayload]
        ELSE tbl[r]]

\* an UPDATE that clears executed_at of a row already executed
MarkExecutedToggling(tbl, id, ts) ==
    [r \in DOMAIN tbl |->
        IF r = id
        THEN [tbl[r] EXCEPT !.executed_at = IF @ = NULL THEN ts ELSE NULL]
        ELSE tbl[r]]

\* UPDATE tasks SET executed_at = CURRENT_TIMESTAMP WHERE id = $1
MarkExecuted(tbl, id, ts) ==
    [r \in DOMAIN tbl |-> IF r = id THEN [tbl[r] EXCEPT !.executed_at = ts] ELSE tbl[r]]

\* a fetch that takes an absent row for a row found
FetchOkAbsentRow(tbl, id) == id \notin DOMAIN tbl \/ tbl[id].payload # NullPayload

\* SELECT name, payload FROM tasks WHERE id = $1, scanned into two strings
FetchOk(tbl, id) == id \in DOMAIN tbl /\ tbl[id].payload # NullPayload

\* ------------------------------------------------------------- Init
\* values of the -mode flag: the two modes and one that is neither
FlagModes == {"consumer", "publisher", "bogus"}

\* main has created table and trigger and has called consumer / publisher
Bootstrapped ==
    [flagMode |-> "consumer", pc |-> "consumer",
     issued |-> {"create table", "create trigger"}]

\* main is entered with some -mode flag
Entered(flag) == [flagMode |-> flag, pc |-> "open", issued |-> {}]

\* every process has run main up to consumer(db) / publisher(db)
Init ==
    /\ boot = Bootstrapped
    /\ tasks = <<>>
    /\ notify = [c \in Consumers |-> <<>>]
    /\ listener = [c \in Consumers |-> "closed"]
    /\ pc = [c \in Consumers |-> "consumer"]
    /\ mode = [c \in Consumers |-> "startup"]
    /\ taskID = [c \in Consumers |-> 0]
    /\ lastLog = [c \in Consumers |-> "running in consumer mode"]
    /\ executing = <<>>
    /\ caughtUp = [c \in Consumers |-> FALSE]
    /\ faults = MaxFaults

\* ------------------------------------------------------------- producers
\* consumers whose listener holds a live LISTEN when pg_notify runs
Subscribers == {c \in Consumers : listener[c] = "up"}

\* INSERT INTO tasks (name, payload) ... and the AFTER INSERT trigger's pg_notify
Insert(name, payload, subs) ==
    /\ Len(tasks) < MaxTasks
    /\ \E ts \in CurrentTimestamps(tasks) : tasks' = Append(tasks, Row(name, payload, ts))
    /\ executing' = Append(executing, 0)
    /\ notify' = [c \in Consumers |->
                    IF c \in subs
                    THEN Append(notify[c], Notification(IdText(Len(tasks) + 1)))
                    ELSE notify[c]]

\* publisher: one iteration of the loop, the insert succeeding
Publish ==
    /\ Insert("task", "payload", Subscribers)
    /\ UNCHANGED <<boot, listener, pc, mode, taskID, lastLog, caughtUp, faults>>

\* a failed insert whose notification is sent all the same
PublishErrorNotifying ==
    /\ faults > 0
    /\ faults' = faults - 1
    /\ notify' = [c \in Consumers |->
                    IF c \in Subscribers
                    THEN Append(notify[c], Notification(IdText(Len(tasks) + 1)))
                    ELSE notify[c]]
    /\ UNCHANGED <<boot, tasks, listener, pc, mode, taskID, lastLog, executing, caughtUp>>

\* publisher: one iteration of the loop, the insert failing ("error inserting task")
PublishError ==
    /\ faults > 0
    /\ faults' = faults - 1
    /\ UNCHANGED <<boot, tasks, notify, listener, pc, mode, taskID, lastLog,
                   executing, caughtUp>>

\* another producer inserting a row the schema admits: payload TEXT is nullable
ForeignInsert ==
    /\ Insert("task", NullPayload, Subscribers)
    /\ UNCHANGED <<boot, listener, pc, mode, taskID, lastLog, caughtUp, faults>>

\* another session running NOTIFY tasks_inserted, '<extra>'
ForeignNotify ==
    \E extra \in ForeignExtras :
        /\ Subscribers # {}
        /\ faults > 0
        /\ faults' = faults - 1
        /\ notify' = [c \in Consumers |->
                        IF c \in Subscribers THEN Append(notify[c], Notification(extra))
                        ELSE notify[c]]
        /\ UNCHANGED <<boot, tasks, listener, pc, mode, taskID, lastLog, executing, caughtUp>>

\* ------------------------------------------------------------- the listener
\* the listener's connection is lost: notifications sent meanwhile are not received
Disconnect(c) ==
    /\ listener[c] = "up"
    /\ faults > 0
    /\ faults' = faults - 1
    /\ listener' = [listener EXCEPT ![c] = "down"]
    /\ UNCHANGED <<boot, tasks, notify, pc, mode, taskID, lastLog, executing, caughtUp>>

\* the listener reconnects: a nil notification is sent on listener.Notify
Reconnect(c) ==
    /\ listener[c] = "down"
    /\ listener' = [listener EXCEPT ![c] = "up"]
    /\ notify' = [notify EXCEPT ![c] = Append(@, NilNotification)]
    /\ UNCHANGED <<boot, tasks, pc, mode, taskID, lastLog, executing, caughtUp, faults>>

\* ------------------------------------------------------------- catchup
\* where control goes when catchup returns: consumer line 86, or the for loop
AfterCatchup(c) == IF mode[c] = "startup" THEN "listen" ELSE "loop"

\* a catchup that returns after the first doJob
AfterDoJobLeavesPass(c) == IF mode[c] = "notify" THEN "loop" ELSE AfterCatchup(c)

\* where control goes when doJob returns: the for loop of catchup, or of consumer
\* a doJob after which the caller always issues the claim query
AfterDoJobAlwaysClaim(c) == "claim"

AfterDoJob(c) == IF mode[c] = "notify" THEN "loop" ELSE "claim"

\* a consumer that subscribes without the catchup call before
SkipStartupCatchup == "listen"

\* where consumer goes first: catchup(db)
AfterConsumerEntry == "claim"

\* consumer: slog.Info("running in consumer mode"); catchup(db)
ConsumerStart(c) ==
    /\ pc[c] = "consumer"
    /\ pc' = [pc EXCEPT ![c] = AfterConsumerEntry]
    /\ mode' = [mode EXCEPT ![c] = "startup"]
    /\ lastLog' = [lastLog EXCEPT ![c] = "catching up on pending tasks"]
    /\ UNCHANGED <<boot, tasks, notify, listener, taskID, executing, caughtUp, faults>>

\* catchup returns: its taskID goes out of scope
CatchupReturns(c, line) ==
    /\ pc' = [pc EXCEPT ![c] = AfterCatchup(c)]
    /\ mode' = [mode EXCEPT ![c] = "none"]
    /\ taskID' = [taskID EXCEPT ![c] = 0]
    /\ caughtUp' = [caughtUp EXCEPT ![c] = TRUE]
    /\ lastLog' = [lastLog EXCEPT ![c] = line]

\* the claim query finds an unlocked pending row and locks it
ClaimLock(c) ==
    /\ pc[c] = "claim"
    /\ \E id \in Claimable(tasks, LockedByOthers(c)) :
        taskID' = [taskID EXCEPT ![c] = id]
    /\ pc' = [pc EXCEPT ![c] = "claimLocked"]
    /\ UNCHANGED <<boot, tasks, notify, listener, mode, lastLog, executing,
                   caughtUp, faults>>

\* the claim statement ends: its transaction commits, the lock is released,
\* Scan sets taskID; "got task"; doJob(db, taskID)
ClaimGot(c) ==
    /\ pc[c] = "claimLocked"
    /\ pc' = [pc EXCEPT ![c] = "fetch"]
    /\ lastLog' = [lastLog EXCEPT ![c] = "got task"]
    /\ UNCHANGED <<boot, tasks, notify, listener, mode, taskID, executing,
                   caughtUp, faults>>

\* the claim query finds no unlocked pending row: sql.ErrNoRows, "no tasks", return
ClaimNoRows(c) ==
    /\ pc[c] = "claim"
    /\ Claimable(tasks, LockedByOthers(c)) = {}
    /\ CatchupReturns(c, "no tasks")
    /\ UNCHANGED <<boot, tasks, notify, listener, executing, faults>>

\* a claim query failure that ends the process
ClaimErrorFatal(c) ==
    /\ pc[c] = "claim"
    /\ faults > 0
    /\ faults' = faults - 1
    /\ pc' = [pc EXCEPT ![c] = "exited"]
    /\ lastLog' = [lastLog EXCEPT ![c] = "catchup: error getting task"]
    /\ UNCHANGED <<boot, tasks, notify, listener, mode, taskID, executing, caughtUp>>

\* the claim query fails: "error getting task", return
ClaimError(c) ==
    /\ pc[c] = "claim"
    /\ faults > 0
    /\ faults' = faults - 1
    /\ CatchupReturns(c, "catchup: error getting task")
    /\ UNCHANGED <<boot, tasks, notify, listener, executing>>

\* ------------------------------------------------------------- doJob
\* doJob returns: to the for loop of catchup, which keeps its taskID, or to the
\* for loop of consumer, where id goes out of scope
DoJobReturns(c) ==
    /\ pc' = [pc EXCEPT ![c] = AfterDoJob(c)]
    /\ mode' = [mode EXCEPT ![c] = IF mode[c] = "notify" THEN "none" ELSE @]
    /\ taskID' = [taskID EXCEPT ![c] = IF mode[c] = "notify" THEN 0 ELSE @]

\* the fetch succeeds: "executing task"
DoJobFetch(c) ==
    /\ pc[c] = "fetch"
    /\ FetchOk(tasks, taskID[c])
    /\ pc' = [pc EXCEPT ![c] = "update"]
    /\ lastLog' = [lastLog EXCEPT ![c] = "executing task"]
    /\ executing' = [executing EXCEPT ![taskID[c]] = @ + 1]
    /\ UNCHANGED <<boot, tasks, notify, listener, mode, taskID, caughtUp, faults>>

\* the fetch finds no row, or Scan cannot store a NULL payload in a string:
\* "error getting task", return
DoJobFetchScanError(c) ==
    /\ pc[c] = "fetch"
    /\ ~FetchOk(tasks, taskID[c])
    /\ DoJobReturns(c)
    /\ lastLog' = [lastLog EXCEPT ![c] = "doJob: error getting task"]
    /\ UNCHANGED <<boot, tasks, notify, listener, executing, caughtUp, faults>>

\* the fetch fails in the store: "error getting task", return
DoJobFetchError(c) ==
    /\ pc[c] = "fetch"
    /\ faults > 0
    /\ faults' = faults - 1
    /\ DoJobReturns(c)
    /\ lastLog' = [lastLog EXCEPT ![c] = "doJob: error getting task"]
    /\ UNCHANGED <<boot, tasks, notify, listener, executing, caughtUp>>

\* the UPDATE succeeds (it waits while another statement holds the row locked)
DoJobUpdate(c) ==
    /\ pc[c] = "update"
    /\ taskID[c] \notin LockedByOthers(c)
    /\ \E ts \in CurrentTimestamps(tasks) : tasks' = MarkExecuted(tasks, taskID[c], ts)
    /\ DoJobReturns(c)
    /\ UNCHANGED <<boot, notify, listener, lastLog, executing, caughtUp, faults>>

\* the UPDATE fails: "error executing task"
DoJobUpdateError(c) ==
    /\ pc[c] = "update"
    /\ faults > 0
    /\ faults' = faults - 1
    /\ DoJobReturns(c)
    /\ lastLog' = [lastLog EXCEPT ![c] = "error executing task"]
    /\ UNCHANGED <<boot, tasks, notify, listener, executing, caughtUp>>

\* ------------------------------------------------------------- consumer
\* listener.Listen("tasks_inserted") succeeds; the ticker is created
Listen(c) ==
    /\ pc[c] = "listen"
    /\ listener' = [listener EXCEPT ![c] = "up"]
    /\ pc' = [pc EXCEPT ![c] = "loop"]
    /\ lastLog' = [lastLog EXCEPT ![c] = "Listening for notifications"]
    /\ UNCHANGED <<boot, tasks, notify, mode, taskID, executing, caughtUp, faults>>

\* listener.Listen fails: log.Fatalf
ListenError(c) ==
    /\ pc[c] = "listen"
    /\ faults > 0
    /\ faults' = faults - 1
    /\ pc' = [pc EXCEPT ![c] = "exited"]
    /\ lastLog' = [lastLog EXCEPT ![c] = "Failed to listen on channel"]
    /\ UNCHANGED <<boot, tasks, notify, listener, mode, taskID, executing, caughtUp>>

\* case notification := <-listener.Notify, notification == nil: continue
ReceiveNil(c) ==
    /\ pc[c] = "loop"
    /\ notify[c] # <<>>
    /\ Head(notify[c]).nil
    /\ notify' = [notify EXCEPT ![c] = Tail(@)]
    /\ UNCHANGED <<boot, tasks, listener, pc, mode, taskID, lastLog, executing,
                   caughtUp, faults>>

\* case notification := <-listener.Notify, Atoi fails: "error parsing task id"
ReceiveMalformed(c) ==
    /\ pc[c] = "loop"
    /\ notify[c] # <<>>
    /\ ~Head(notify[c]).nil
    /\ ~Atoi(Head(notify[c]).Extra).ok
    /\ notify' = [notify EXCEPT ![c] = Tail(@)]
    /\ lastLog' = [lastLog EXCEPT ![c] = "error parsing task id"]
    /\ UNCHANGED <<boot, tasks, listener, pc, mode, taskID, executing, caughtUp, faults>>

\* case notification := <-listener.Notify, Atoi succeeds: doJob(db, id)
ReceiveNotification(c) ==
    /\ pc[c] = "loop"
    /\ notify[c] # <<>>
    /\ ~Head(notify[c]).nil
    /\ Atoi(Head(notify[c]).Extra).ok
    /\ notify' = [notify EXCEPT ![c] = Tail(@)]
    /\ taskID' = [taskID EXCEPT ![c] = Atoi(Head(notify[c]).Extra).val]
    /\ mode' = [mode EXCEPT ![c] = "notify"]
    /\ pc' = [pc EXCEPT ![c] = "fetch"]
    /\ lastLog' = [lastLog EXCEPT ![c] = "Received NOTIFY"]
    /\ UNCHANGED <<boot, tasks, listener, executing, caughtUp, faults>>

\* a ticker case that runs no catchup
TickIdle(c) ==
    /\ pc[c] = "loop"
    /\ lastLog' = [lastLog EXCEPT ![c] = "tick"]
    /\ UNCHANGED <<boot, tasks, notify, listener, pc, mode, taskID, executing, caughtUp, faults>>

\* case <-ticker.C: catchup(db)
Tick(c) ==
    /\ pc[c] = "loop"
    /\ pc' = [pc EXCEPT ![c] = "claim"]
    /\ mode' = [mode EXCEPT ![c] = "tick"]
    /\ lastLog' = [lastLog EXCEPT ![c] = "catching up on pending tasks"]
    /\ UNCHANGED <<boot, tasks, notify, listener, taskID, executing, caughtUp, faults>>

\* ------------------------------------------------------------- specification
\* the steps of consumer c in which no statement fails and every row is found
ConsumerStep(c) ==
    \/ ConsumerStart(c)
    \/ ClaimLock(c)
    \/ ClaimGot(c)
    \/ ClaimNoRows(c)
    \/ DoJobFetch(c)
    \/ DoJobUpdate(c)
    \/ Listen(c)
    \/ Tick(c)

\* the steps of consumer c in which a store operation fails
FaultStep(c) ==
    \/ ClaimError(c)
    \/ DoJobFetchError(c)
    \/ DoJobUpdateError(c)
    \/ ListenError(c)

\* the consumer process of the specification with one consumer
Solo == "c1"

\* one consumer process and the publisher, with every disturbance: failing store
\* operations, lost listener connections, rows and notifications of other sessions
Next ==
    \/ Publish
    \/ PublishError
    \/ ForeignInsert
    \/ ForeignNotify
    \/ Disconnect(Solo)
    \/ Reconnect(Solo)
    \/ ConsumerStep(Solo)
    \/ DoJobFetchScanError(Solo)
    \/ ReceiveNil(Solo)
    \/ ReceiveMalformed(Solo)
    \/ ReceiveNotification(Solo)
    \/ FaultStep(Solo)

Spec == Init /\ [][Next]_vars

\* several consumer processes and the publisher, no disturbance
NextRace ==
    \/ Publish
    \/ \E c \in Consumers : ConsumerStep(c)
    \/ \E c \in Consumers : ReceiveNotification(c)

RaceSpec == Init /\ [][NextRace]_vars

\* publisher: one iteration of the loop, no listener receiving the notification
PublishUnheard ==
    /\ Insert("task", "payload", {})
    /\ UNCHANGED <<boot, listener, pc, mode, taskID, lastLog, caughtUp, faults>>

\* several consumer processes and the publisher, every notification dropped
NextUnheard ==
    \/ PublishUnheard
    \/ \E c \in Consumers : ConsumerStep(c)

\* one consumer keeps running (its ticker fires, its statements complete); the
\* others may stop anywhere, but a claim statement the server runs always ends
LiveSpec ==
    /\ Init
    /\ [][NextUnheard]_vars
    /\ WF_vars(ConsumerStep(Solo))
    /\ \A c \in Consumers : WF_vars(ClaimGot(c))

\* the steps of a consumer that stops right after its claim query has returned
\* a row, before doJob
StalledStep(c) ==
    \/ ConsumerStart(c)
    \/ ClaimLock(c)
    \/ ClaimGot(c)

\* one consumer keeps running, every other one stops after its first claim;
\* every notification dropped
NextStall ==
    \/ PublishUnheard
    \/ ConsumerStep(Solo)
    \/ \E c \in Consumers \ {Solo} : StalledStep(c)

StallSpec ==
    /\ Init
    /\ [][NextStall]_vars
    /\ WF_vars(ConsumerStep(Solo))
    /\ \A c \in Consumers \ {Solo} : WF_vars(ClaimGot(c))

\* ------------------------------------------------------------- main
MainUnchanged ==
    UNCHANGED <<tasks, notify, listener, pc, mode, taskID, lastLog, executing, caughtUp>>

\* flag.Parse(); sql.Open succeeds
MainOpen ==
    /\ boot.pc = "open"
    /\ boot' = [boot EXCEPT !.pc = "table"]
    /\ UNCHANGED faults
    /\ MainUnchanged

\* CREATE TABLE IF NOT EXISTS tasks succeeds
MainCreateTable ==
    /\ boot.pc = "table"
    /\ boot' = [boot EXCEPT !.pc = "trigger", !.issued = @ \cup {"create table"}]
    /\ UNCHANGED faults
    /\ MainUnchanged

\* CREATE OR REPLACE FUNCTION ... CREATE TRIGGER succeeds
MainCreateTrigger ==
    /\ boot.pc = "trigger"
    /\ boot' = [boot EXCEPT !.pc = "mode", !.issued = @ \cup {"create trigger"}]
    /\ UNCHANGED faults
    /\ MainUnchanged

\* sql.Open, or one of the two bootstrap statements, fails: os.Exit(1)
MainError ==
    /\ boot.pc \in {"open", "table", "trigger"}
    /\ faults > 0
    /\ faults' = faults - 1
    /\ boot' = [boot EXCEPT !.pc = "exit 1"]
    /\ MainUnchanged

\* if flagMode == "consumer" ... else if flagMode == "publisher" ... else os.Exit(1)
MainDispatch ==
    /\ boot.pc = "mode"
    /\ boot' = [boot EXCEPT !.pc = IF boot.flagMode \in {"consumer", "publisher"}
                                   THEN boot.flagMode ELSE "exit 1"]
    /\ UNCHANGED faults
    /\ MainUnchanged

\* one process from the entry of main on, beside the rows other sessions insert
InitMain ==
    /\ \E flag \in FlagModes : boot = Entered(flag)
    /\ tasks = <<>>
    /\ notify = [c \in Consumers |-> <<>>]
    /\ listener = [c \in Consumers |-> "closed"]
    /\ pc = [c \in Consumers |-> "consumer"]
    /\ mode = [c \in Consumers |-> "startup"]
    /\ taskID = [c \in Consumers |-> 0]
    /\ lastLog = [c \in Consumers |-> "running in consumer mode"]
    /\ executing = <<>>
    /\ caughtUp = [c \in Consumers |-> FALSE]
    /\ faults = MaxFaults

NextMain ==
    \/ MainOpen
    \/ MainCreateTable
    \/ MainCreateTrigger
    \/ MainError
    \/ MainDispatch
    \/ ForeignInsert
    \/ boot.pc = "publisher" /\ Publish
    \/ boot.pc = "consumer" /\ ConsumerStep(Solo)
    \/ boot.pc = "consumer" /\ DoJobFetchScanError(Solo)
    \/ boot.pc = "consumer" /\ ReceiveNotification(Solo)

MainSpec == InitMain /\ [][NextMain]_vars

\* ------------------------------------------------------------- claims
Pending(tbl) == {id \in DOMAIN tbl : tbl[id].executed_at = NULL}

\* consumer c is in catchup between "got task" for row t and the end of doJob(t)
InCatchupJob(c, t) ==
    /\ mode[c] \in {"startup", "tick"}
    /\ pc[c] \in {"fetch", "update"}
    /\ taskID[c] = t

\* the step is one of consumer c
StepOf(c) == pc'[c] # pc[c]

\* consumer c receives the notification at the head of listener.Notify
Receives(c) == pc[c] = "loop" /\ notify[c] # <<>> /\ notify'[c] = Tail(notify[c])

\* C1: at-most-one-claim: no two consumers are both between "got task" and the
\* end of doJob for the same row, i.e. the claim query hands a row to at most one.
C1_AtMostOneClaim ==
    \A c1, c2 \in Consumers :
        c1 # c2 => ~\E t \in DOMAIN tasks : InCatchupJob(c1, t) /\ InCatchupJob(c2, t)

\* C2: at-most-once execution: "executing task" is logged, and executed_at then
\* written, at most once for every row.
C2_AtMostOnceExecution == \A t \in DOMAIN executing : executing[t] <= 1

\* C3: no-loss: with every notification dropped, every row inserted is eventually
\* marked executed (ticker and statements of each consumer weakly fair).
C3_NoLoss ==
    \A t \in 1..MaxTasks :
        (t \in DOMAIN tasks) ~> (t \in DOMAIN tasks /\ tasks[t].executed_at # NULL)

\* a ticker-driven pass has executed a row that was inserted unheard
C3_Witness ==
    \E c \in Consumers :
        /\ mode[c] = "tick"
        /\ pc[c] = "claim"
        /\ taskID[c] \in DOMAIN tasks
        /\ tasks[taskID[c]].executed_at # NULL
        /\ notify[c] = <<>>

\* C4: a stale notification is a no-op: doJob run by the notification handler for
\* a row already executed logs no "executing task" and leaves executed_at as it is.
C4_StaleNotificationNoOp ==
    [][\A c \in Consumers :
        (/\ mode[c] = "notify"
         /\ pc[c] \in {"fetch", "update"}
         /\ taskID[c] \in DOMAIN tasks
         /\ tasks[taskID[c]].executed_at # NULL
         /\ StepOf(c))
        => (/\ executing'[taskID[c]] = executing[taskID[c]]
            /\ tasks'[taskID[c]].executed_at = tasks[taskID[c]].executed_at)]_vars

\* C5: idempotent mark: the UPDATE of doJob applied to a row whose executed_at is
\* set, at a later time, leaves executed_at at the value set first.
C5_IdempotentMark ==
    [][\A c \in Consumers :
        (/\ pc[c] = "update"
         /\ StepOf(c)
         /\ faults' = faults
         /\ taskID[c] \in DOMAIN tasks
         /\ tasks[taskID[c]].executed_at # NULL)
        => tasks'[taskID[c]].executed_at = tasks[taskID[c]].executed_at]_vars

\* C6: a task whose doJob failed is abandoned for the rest of the pass: the next
\* claim query of the same catchup call does not return it again.
C6_FailedTaskNotReclaimedInPass ==
    [][\A c \in Consumers :
        (/\ pc[c] = "claim"
         /\ lastLog[c] \in {"doJob: error getting task", "error executing task"}
         /\ pc'[c] = "claimLocked")
        => taskID'[c] # taskID[c]]_vars

\* C7: empty-store reconciliation: with no pending row, the claim query (not
\* failing) returns no row, catchup returns at once with "no tasks", and no row
\* is changed.
C7_EmptyStoreReconciliation ==
    [][\A c \in Consumers :
        (/\ pc[c] = "claim"
         /\ Pending(tasks) = {}
         /\ StepOf(c)
         /\ faults' = faults)
        => (/\ pc'[c] \in {"listen", "loop"}
            /\ lastLog'[c] = "no tasks"
            /\ tasks' = tasks
            /\ executing' = executing)]_vars

\* a pass has ended with "no tasks" on a table whose rows are all executed
C7_Witness ==
    \E c \in Consumers :
        /\ lastLog[c] = "no tasks"
        /\ pc[c] \in {"listen", "loop"}
        /\ tasks # <<>>
        /\ Pending(tasks) = {}

\* payloads that are not the text of an integer
MalformedExtras == {<<"x">>}

\* C8: malformed notification: receiving a notification whose Extra is not an
\* integer changes no row, calls no doJob, and leaves the consumer in the loop.
C8_MalformedNotification ==
    [][\A c \in Consumers :
        (/\ Receives(c)
         /\ ~Head(notify[c]).nil
         /\ Head(notify[c]).Extra \in MalformedExtras)
        => (/\ tasks' = tasks
            /\ executing' = executing
            /\ pc'[c] = "loop"
            /\ mode'[c] = "none"
            /\ taskID'[c] = 0)]_vars

\* a malformed notification was received and the consumer is back in the loop
C8_Witness ==
    \E c \in Consumers : lastLog[c] = "error parsing task id" /\ pc[c] = "loop"

\* C9: startup ordering: a consumer that subscribes, is subscribed, or handles a
\* notification or a tick has completed a catchup call before.
C9_StartupOrdering ==
    \A c \in Consumers :
        (\/ listener[c] # "closed"
         \/ pc[c] \in {"listen", "loop", "exited"}
         \/ mode[c] \in {"tick", "notify"})
        => caughtUp[c]

\* a consumer is subscribed and in its event loop
C9_Witness ==
    \E c \in Consumers : pc[c] = "loop" /\ listener[c] = "up" /\ caughtUp[c]

\* C10: reconnect triggers reconciliation: receiving the nil notification of a
\* reconnect starts a catchup call.
C10_ReconnectRunsCatchup ==
    [][\A c \in Consumers :
        (Receives(c) /\ Head(notify[c]).nil) => pc'[c] = "claim"]_vars

\* a consumer other than the running one has stopped with a claimed row
StalledWith(t) ==
    \E c \in Consumers \ {Solo} : pc[c] = "fetch" /\ taskID[c] = t

\* C11: no permanent loss when a dispatcher stalls: while another consumer has
\* stopped right after its claim query returned a row, every pending row, the
\* claimed one included, is eventually executed by the running consumer.
C11_NoLossWhenStalled ==
    \A t \in 1..MaxTasks :
        (/\ t \in DOMAIN tasks
         /\ tasks[t].executed_at = NULL
         /\ \E u \in DOMAIN tasks : StalledWith(u))
        ~> (t \in DOMAIN tasks /\ tasks[t].executed_at # NULL)

\* the row a stopped consumer had claimed has been executed by the running one
C11_Witness ==
    \E t \in DOMAIN tasks : StalledWith(t) /\ tasks[t].executed_at # NULL

\* C12: causal ordering: a row is executed only after it was inserted (no step
\* adds a row already executed, or executes an id without a row), and doJob
\* called with an id that has no row changes nothing and returns to the loop.
C12_CausalOrdering ==
    [][/\ \A t \in DOMAIN tasks' : tasks'[t].executed_at # NULL => t \in DOMAIN tasks
       /\ DOMAIN executing' = DOMAIN tasks'
       /\ \A c \in Consumers :
            (pc[c] = "fetch" /\ taskID[c] \notin DOMAIN tasks /\ StepOf(c))
            => (/\ tasks' = tasks
                /\ executing' = executing
                /\ pc'[c] = "loop")]_vars

\* doJob was called for an id without a row and the consumer is back in the loop
C12_Witness ==
    \E c \in Consumers :
        /\ tasks = <<>>
        /\ pc[c] = "loop"
        /\ lastLog[c] = "doJob: error getting task"

\* C13: round-trip fidelity: no step deletes a row or changes the id, name,
\* payload or created_at of a row: executed_at is the only field ever written.
C13_RoundTripFidelity ==
    [][\A t \in DOMAIN tasks :
        /\ t \in DOMAIN tasks'
        /\ tasks'[t].name = tasks[t].name
        /\ tasks'[t].payload = tasks[t].payload
        /\ tasks'[t].created_at = tasks[t].created_at]_vars

\* a row the publisher inserted has been executed and still holds its name and payload
C13_Witness ==
    \E t \in DOMAIN tasks :
        /\ tasks[t].executed_at # NULL
        /\ executing[t] >= 1
        /\ tasks[t].name = "task"
        /\ tasks[t].payload = "payload"

\* a notification sent by the insert trigger, not by another session
TriggerNotification(n) == ~n.nil /\ n.Extra \notin ForeignExtras

\* C14: insert notification: every notification of the trigger names a row that
\* exists, and one is added to a queue only by the step that inserts the row it
\* names; a step that adds no row (a failed insert) adds no such notification.
\* The queues start empty, so the steps to look at are those that change a queue
\* or remove a row.
C14_InsertNotification ==
    [][(notify' # notify \/ Len(tasks') < Len(tasks))
       => \A c \in Consumers :
            /\ \A i \in 1..Len(notify'[c]) :
                TriggerNotification(notify'[c][i])
                => \E t \in DOMAIN tasks' : notify'[c][i].Extra = IdText(t)
            /\ (/\ Len(notify'[c]) > Len(notify[c])
                /\ TriggerNotification(notify'[c][Len(notify'[c])]))
               => (/\ Len(tasks') = Len(tasks) + 1
                   /\ notify'[c][Len(notify'[c])].Extra = IdText(Len(tasks')))]_vars

\* the notification of the row inserted last waits in a consumer's queue
C14_Witness ==
    \E c \in Consumers :
        /\ notify[c] # <<>>
        /\ TriggerNotification(Head(notify[c]))
        /\ Atoi(Head(notify[c]).Extra).val = Len(tasks)

\* C15: invalid mode is fatal with no partial operation: a process whose -mode
\* is neither "consumer" nor "publisher" executes no statement on the store and
\* starts neither the consumer nor the publisher.
C15_InvalidModeNoPartialOperation ==
    boot.flagMode \notin {"consumer", "publisher"}
    => (boot.issued = {} /\ boot.pc \notin {"consumer", "publisher"})

\* a process with an invalid -mode has exited with status 1
C15_Witness == boot.flagMode = "bogus" /\ boot.pc = "exit 1" /\ faults = MaxFaults

\* C16: full drain: with one dispatcher, a catchup call whose last statement did
\* not fail returns only with "no tasks", and then no row is pending: it has
\* executed every row that was pending, not just one.
C16_FullDrain ==
    [][\A c \in Consumers :
        (/\ mode[c] \in {"startup", "tick"}
         /\ pc[c] \in {"claim", "fetch", "update"}
         /\ pc'[c] \in {"listen", "loop"}
         /\ faults' = faults)
        => (lastLog'[c] = "no tasks" /\ Pending(tasks') = {})]_vars

\* the startup pass, the only one so far, has executed two rows and ended
C16_Witness ==
    \E c \in Consumers :
        /\ pc[c] = "listen"
        /\ lastLog[c] = "no tasks"
        /\ Len(tasks) >= 2
        /\ \A t \in DOMAIN tasks : tasks[t].executed_at # NULL /\ executing[t] = 1

\* C17: every row the schema admits can be executed: doJob for a row whose payload
\* is NULL fetches it (the statement not failing in the store), logs "executing
\* task" and goes on to the UPDATE.
C17_NullPayloadExecutes ==
    [][\A c \in Consumers :
        (/\ pc[c] = "fetch"
         /\ taskID[c] \in DOMAIN tasks
         /\ tasks[taskID[c]].payload = NullPayload
         /\ StepOf(c)
         /\ faults' = faults)
        => (/\ pc'[c] = "update"
            /\ executing'[taskID[c]] = executing[taskID[c]] + 1)]_vars

\* doJob has returned with "error getting task" for a pending row with NULL payload
C17_Witness ==
    \E c \in Consumers :
        /\ pc[c] = "claim"
        /\ lastLog[c] = "doJob: error getting task"
        /\ faults = MaxFaults
        /\ taskID[c] \in DOMAIN tasks
        /\ tasks[taskID[c]].payload = NullPayload
        /\ tasks[taskID[c]].executed_at = NULL

\* C18: transient errors never end the consumer: once the event loop is entered,
\* a failing claim query, fetch (a missing row included) or UPDATE changes no row and leaves the consumer in
\* the loop (at the select, or in the for loop of the pass the ticker started); a
\* failing claim query ends the pass and returns to the select.
C18_TransientErrorsKeepLoop ==
    [][\A c \in Consumers :
        (/\ mode[c] \in {"tick", "notify"}
         /\ StepOf(c)
         /\ (faults' < faults \/ (pc[c] = "fetch" /\ pc'[c] # "update")))
        => (/\ pc'[c] \in {"loop", "claim"}
            /\ tasks' = tasks
            /\ listener' = listener
            /\ (pc[c] = "claim" =>
                    /\ pc'[c] = "loop"
                    /\ lastLog'[c] = "catchup: error getting task"))]_vars

\* a claim query has failed in a pass started by the ticker, and the consumer is
\* back at the select with its listener
C18_Witness ==
    \E c \in Consumers :
        /\ pc[c] = "loop"
        /\ lastLog[c] = "catchup: error getting task"
        /\ listener[c] # "closed"
        /\ Pending(tasks) # {}

\* C19: the notification path handles exactly the named task: while a consumer
\* handles a notification with id n, each of its steps leaves the number of rows
\* and every row other than n unchanged and never enters the claim query; with
\* neither statement of doJob failing, the fetch of a row it can read goes on to
\* the UPDATE, and the UPDATE leaves n executed and returns to the select.
C19_NotificationHandlesNamedTask ==
    [][\A c \in Consumers :
        (mode[c] = "notify" /\ StepOf(c))
        => (/\ Len(tasks') = Len(tasks)
            /\ \A t \in DOMAIN tasks : t # taskID[c] => tasks'[t] = tasks[t]
            /\ pc'[c] \in {"update", "loop"}
            /\ taskID'[c] \in {taskID[c], 0}
            /\ (pc[c] = "fetch" /\ FetchOk(tasks, taskID[c]) /\ faults' = faults
                    => pc'[c] = "update")
            /\ (pc[c] = "update" /\ faults' = faults
                    => /\ tasks'[taskID[c]].executed_at # NULL
                       /\ tasks'[taskID[c]].payload = tasks[taskID[c]].payload
                       /\ pc'[c] = "loop"))]_vars

\* a notification for one of two pending rows has been handled: that row is
\* executed, the other one is still pending and was never fetched
C19_Witness ==
    \E c \in Consumers :
        /\ pc[c] = "loop"
        /\ lastLog[c] = "executing task"
        /\ \E n, m \in DOMAIN tasks :
            /\ tasks[n].executed_at # NULL
            /\ executing[n] = 1
            /\ tasks[m].executed_at = NULL
            /\ executing[m] = 0

\* C20: executed is absorbing: no step, of any producer or dispatcher, removes a
\* row or sets a non-null executed_at back to NULL, and the row a claim query
\* returns has executed_at NULL.
C20_ExecutedAbsorbing ==
    [][/\ \A t \in DOMAIN tasks :
            tasks[t].executed_at # NULL
                => (t \in DOMAIN tasks' /\ tasks'[t].executed_at # NULL)
       /\ \A c \in Consumers :
            (pc[c] = "claim" /\ pc'[c] = "claimLocked")
                => tasks[taskID'[c]].executed_at = NULL]_vars

\* a row has been executed twice and is still executed; a later pass of one
\* dispatcher claimed the other, pending row and not this one
C20_Witness ==
    \E t, u \in DOMAIN tasks : \E c \in Consumers :
        /\ executing[t] = 2
        /\ tasks[t].executed_at # NULL
        /\ \A d \in Consumers : pc[d] \notin {"fetch", "update"} \/ taskID[d] # t
        /\ pc[c] = "claimLocked"
        /\ taskID[c] = u
        /\ mode[c] = "tick"

====
